---- MODULE Spec2Model ----
(***************************************************************************)
(* Model of the AppSignals MCP server (src/src/mcp_server_appsignals):     *)
(* the tool handlers of server.py, its helpers get_batch_traces,           *)
(* get_trace_summaries_paginated and check_transaction_search_enabled, and *)
(* the SLI report generator of sli_report_client.py.                       *)
(*                                                                         *)
(* The server handles one call at a time.  pc = "idle" between calls; a    *)
(* call action draws the arguments, every AWS request is answered          *)
(* nondeterministically (a response or an exception), the call ends at     *)
(* pc = "done" with its outcome, and Respond hands the outcome back and    *)
(* drops the call's locals.  Only AWSConfigClass outlives a call.  A       *)
(* returned string is modelled as the sequence of its pieces.              *)
(***************************************************************************)
EXTENDS Integers, Sequences, FiniteSets, TLC

\* ---------------------------------------------------------------- bounds
\* number of trace IDs handed to get_batch_traces
MaxIds == 7
\* number of get_trace_summaries pages AWS serves before the last one
MaxPages == 2
\* largest max_traces handed directly to get_trace_summaries_paginated
MaxTracesArg == 2
\* largest small page of trace summaries get_trace_summaries returns
MaxPageSize == 2
\* size of a large page of trace summaries
BigPage == 60
\* reading of datetime.utcnow(), in hours
Now == 10
\* largest max_timeout (seconds) handed to search_transaction_spans
MaxTimeoutArg == 2
\* number of services list_services returns to list_slis
MaxServices == 2
\* number of SLOs list_service_level_objectives returns per service
MaxSlos == 2
\* number of buckets list_buckets returns
MaxBuckets == 2

\* ------------------------------------------------------ program constants
\* batch_get_traces request size, unprocessed_ids[:5]
BatchSize == 5
\* max_traces passed by query_sampled_traces
SampledMaxTraces == 100
\* timedelta(hours=6) of query_sampled_traces
MaxWindowHours == 6
\* timedelta(hours=3), the default look-back of query_sampled_traces
DefaultWindowHours == 3
\* len(aws_account_id) == 12
AccountIdLen == 12

VARIABLES
    pc,        \* position of the running call, "idle" between calls,
               \* "done" when the call has returned or raised
    tool,      \* name of the running (or last finished) call
    outcome,   \* how the last finished call ended
    failure,   \* first AWS request failure of the running call, or NoError
    requests,  \* AWS requests made by the running call, in order
    AWSConfigClass, \* the class attribute AWSConfig.key_attributes
    batch,     \* locals of get_batch_traces
    pag,       \* locals of get_trace_summaries_paginated
    qst,       \* locals of query_sampled_traces
    sts,       \* locals of search_transaction_spans
    sli,       \* locals of list_slis
    mq,        \* input and result of create_metric_queries
    svc        \* locals of list_monitored_services, get_service_detail,
               \* query_service_metrics and get_slo

vars == <<pc, tool, outcome, failure, requests, AWSConfigClass,
          batch, pag, qst, sts, sli, mq, svc>>

\* ------------------------------------------------------------- exceptions
NoError == [type |-> "none", Message |-> ""]
\* botocore ClientError with e.response['Error']['Message']
AClientError == [type |-> "ClientError", Message |-> "Access Denied"]
\* any other exception raised by a request
AnException == [type |-> "Exception", Message |-> "connection reset"]
RequestErrors == {AClientError, AnException}

\* str(e): botocore renders a ClientError as a sentence around its Message
StrOf(e) ==
    IF e.type = "ClientError"
    THEN <<"An error occurred when calling the operation: ", e.Message>>
    ELSE <<e.Message>>

\* the except ClientError / except Exception pair closing the simple tools
FormatError(e) ==
    IF e.type = "ClientError"
    THEN <<"AWS Error: ">> \o <<e.Message>>
    ELSE <<"Error: ">> \o StrOf(e)

NoOutcome == [kind |-> "none", text |-> <<>>]
Returned(t) == [kind |-> "return", text |-> t]
Raised(e) == [kind |-> "raise", text |-> <<e.type, e.Message>>]

\* ------------------------------------------------------- sequence helpers
Take(s, n) == SubSeq(s, 1, IF n < Len(s) THEN n ELSE Len(s))
Drop(s, n) == SubSeq(s, n + 1, Len(s))
Range(s) == {s[i] : i \in 1..Len(s)}

\* next_token = None: no page token
NoToken == 0

\* --------------------------------------------------- locals at call start
BatchInit == [trace_ids |-> <<>>, unprocessed_ids |-> <<>>, all_traces |-> <<>>,
              sent |-> [i \in 1..MaxIds |-> 0], result |-> <<>>]
PagInit == [max_traces |-> 0, all_traces |-> <<>>, next_token |-> NoToken,
            pages |-> 0, sent_tokens |-> <<>>, result |-> <<>>, caller |-> "none",
            got_tokens |-> <<>>, sizes |-> <<>>]
QstInit == [start_time |-> [kind |-> "None", t |-> 0],
            end_time |-> [kind |-> "None", t |-> 0], window |-> "none",
            tx_enabled |-> FALSE, TraceCount |-> 0]
NoResult == [status |-> "None", queryId |-> "None", results_of |-> 0]
\* no transaction_search_status entry in the returned dictionary
NoTxStatus == [enabled |-> "None", destination |-> "None", status |-> "None"]
StsInit == [log_group_name |-> "None", times_valid |-> FALSE, limit |-> "None",
            max_timeout |-> 0, query_id |-> "None", is_enabled |-> FALSE,
            poll_start |-> 0, timer |-> 0, statuses |-> <<>>, result |-> NoResult,
            tx_response |-> [type |-> "none"],
            transaction_search_status |-> NoTxStatus]
SliInit == [hours |-> 0, services |-> 0, i |-> 0, reports |-> <<>>,
            inputs |-> <<>>, tx_enabled |-> FALSE]
SvcInit == [service_name |-> "None", metric_name |-> "None", hours |-> 0,
            period |-> 0, services |-> 0, listed |-> <<>>, name |-> "None"]
MqInit == [SloSummaries |-> <<>>, queries |-> <<>>]

\* ======================================================= get_batch_traces
\* trace IDs are told apart by their position in the input list
TraceIdList(n) == [i \in 1..n |-> i]

\* what batch_get_traces answers for a batch: every trace, or the first ID of
\* the batch reported in UnprocessedTraceIds, or an exception
BatchResponses == {"all", "unprocessed", "exception"}

BatchTraces(batch_ids, resp) ==
    CASE resp = "all" -> batch_ids
      [] resp = "unprocessed" -> Drop(batch_ids, 1)
      [] OTHER -> <<>>

\* a loop that keeps the batch for another attempt unless every trace of it
\* came back
AfterBatchRetrying(unprocessed_ids, resp) ==
    IF resp = "all" THEN Drop(unprocessed_ids, BatchSize) ELSE unprocessed_ids

\* the list left for the next iteration: `unprocessed_ids[5:]` after a
\* response and in the except branch alike
AfterBatch(unprocessed_ids, resp) == Drop(unprocessed_ids, BatchSize)

Call_get_batch_traces ==
    /\ pc = "idle"
    /\ \E n \in 0..MaxIds :
         /\ batch' = [BatchInit EXCEPT !.trace_ids = TraceIdList(n),
                                       !.unprocessed_ids = TraceIdList(n)]
         /\ IF n = 0
            THEN /\ pc' = "done"
                 /\ outcome' = Returned(<<"traces">>)
            ELSE /\ pc' = "batch_loop"
                 /\ outcome' = NoOutcome
    /\ tool' = "get_batch_traces"
    /\ failure' = NoError
    /\ requests' = <<>>
    /\ pag' = PagInit /\ qst' = QstInit /\ sts' = StsInit
    /\ sli' = SliInit /\ mq' = MqInit /\ svc' = SvcInit
    /\ UNCHANGED AWSConfigClass

\* one iteration of `while unprocessed_ids`
BatchIteration ==
    /\ pc = "batch_loop"
    /\ batch.unprocessed_ids # <<>>
    /\ \E resp \in BatchResponses :
         LET batch_ids == Take(batch.unprocessed_ids, BatchSize)
             rest == AfterBatch(batch.unprocessed_ids, resp)
             traces == batch.all_traces \o BatchTraces(batch_ids, resp)
         IN /\ requests' = Append(requests,
                  [api |-> "batch_get_traces", arg |-> batch_ids])
            /\ batch' = [batch EXCEPT
                  !.unprocessed_ids = rest,
                  !.all_traces = traces,
                  !.sent = [i \in 1..MaxIds |->
                              IF i \in Range(batch_ids) THEN @[i] + 1 ELSE @[i]],
                  !.result = IF rest = <<>> THEN traces ELSE <<>>]
            /\ IF rest = <<>>
               THEN /\ pc' = "done"
                    /\ outcome' = Returned(<<"traces">>)
               ELSE /\ pc' = "batch_loop"
                    /\ outcome' = NoOutcome
    /\ UNCHANGED <<tool, failure, AWSConfigClass, pag, qst, sts, sli, mq, svc>>

\* ========================================= check_transaction_search_enabled
\* answers of xray get_trace_segment_destination: an exception, or a
\* response whose Destination and Status may be absent
TxResponses ==
    RequestErrors \cup
    [type : {"ok"}, Destination : {"CloudWatchLogs", "XRay", "absent"},
                    Status : {"ACTIVE", "PENDING", "absent"}]

\* a check satisfied by either of the two conditions
check_transaction_search_enabled_either(resp) ==
    IF resp.type # "ok"
    THEN [is_enabled |-> FALSE, destination |-> "Unknown", status |-> "Error"]
    ELSE LET destination == IF resp.Destination = "absent" THEN "Unknown"
                            ELSE resp.Destination
             status == IF resp.Status = "absent" THEN "Unknown" ELSE resp.Status
         IN [is_enabled |-> destination = "CloudWatchLogs" \/ status = "ACTIVE",
             destination |-> destination, status |-> status]

check_transaction_search_enabled(resp) ==
    IF resp.type # "ok"
    THEN [is_enabled |-> FALSE, destination |-> "Unknown", status |-> "Error"]
    ELSE LET destination == IF resp.Destination = "absent" THEN "Unknown"
                            ELSE resp.Destination
             status == IF resp.Status = "absent" THEN "Unknown" ELSE resp.Status
         IN [is_enabled |-> destination = "CloudWatchLogs" /\ status = "ACTIVE",
             destination |-> destination, status |-> status]

\* the first failure of the running call is the one remembered
NoteFailure(resp) ==
    IF failure = NoError /\ resp.type \in {"ClientError", "Exception"}
    THEN [type |-> resp.type, Message |-> resp.Message]
    ELSE failure

\* ========================================== get_trace_summaries_paginated
\* the NextToken a response to request number p carries when more pages follow
Token(p) == p
PageSizes == (0..MaxPageSize) \cup {BigPage}

\* the trace summaries of the page served by request number p
Page(p, n) == [k \in 1..n |-> <<p, k>>]

\* answers of xray get_trace_summaries to request number p: an exception, or
\* a page with or without NextToken; the page after MaxPages is the last
PageResponses(p) ==
    RequestErrors \cup
    [type : {"ok"}, size : PageSizes,
     NextToken : IF p > MaxPages THEN {NoToken} ELSE {NoToken, Token(p)}]

\* all_traces as the loop leaves it after a page: cut to max_traces only on
\* the path that sees a NextToken
AfterPage(all_traces, next_token, max_traces) ==
    IF next_token = NoToken THEN all_traces
    ELSE IF Len(all_traces) >= max_traces THEN Take(all_traces, max_traces)
    ELSE all_traces

\* an except branch that returns an empty list
OnPageErrorEmpty(all_traces) == <<>>

\* `except Exception: return all_traces`
OnPageError(all_traces) == all_traces

\* does the loop leave after this page
PageLoopEnds(all_traces, next_token, max_traces) ==
    \/ next_token = NoToken
    \/ Len(all_traces) >= max_traces

\* the helper returns its list: to the caller of a direct call, or into
\* query_sampled_traces
PagReturn ==
    IF pag.caller = "query_sampled_traces"
    THEN /\ pc' = "qst_format"
         /\ outcome' = NoOutcome
    ELSE /\ pc' = "done"
         /\ outcome' = Returned(<<"trace summaries">>)

Call_get_trace_summaries_paginated ==
    /\ pc = "idle"
    /\ \E max_traces \in 0..MaxTracesArg :
         /\ pag' = [PagInit EXCEPT !.max_traces = max_traces, !.caller = "direct"]
         /\ IF max_traces = 0
            THEN /\ pc' = "done"
                 /\ outcome' = Returned(<<"trace summaries">>)
            ELSE /\ pc' = "pag_loop"
                 /\ outcome' = NoOutcome
    /\ tool' = "get_trace_summaries_paginated"
    /\ failure' = NoError
    /\ requests' = <<>>
    /\ batch' = BatchInit /\ qst' = QstInit /\ sts' = StsInit
    /\ sli' = SliInit /\ mq' = MqInit /\ svc' = SvcInit
    /\ UNCHANGED AWSConfigClass

\* one iteration of `while len(all_traces) < max_traces`
PagIteration ==
    /\ pc = "pag_loop"
    /\ Len(pag.all_traces) < pag.max_traces
    /\ \E resp \in PageResponses(pag.pages + 1) :
         /\ requests' = Append(requests,
               [api |-> "get_trace_summaries", arg |-> pag.next_token])
         /\ failure' = NoteFailure(resp)
         /\ IF resp.type # "ok"
            THEN \* except Exception: return all_traces
                 /\ pag' = [pag EXCEPT !.pages = @ + 1,
                                       !.sent_tokens = Append(@, pag.next_token),
                                       !.result = OnPageError(pag.all_traces)]
                 /\ PagReturn
            ELSE LET got == pag.all_traces \o Page(pag.pages + 1, resp.size)
                     kept == AfterPage(got, resp.NextToken, pag.max_traces)
                 IN IF PageLoopEnds(got, resp.NextToken, pag.max_traces)
                    THEN /\ pag' = [pag EXCEPT !.pages = @ + 1,
                                       !.sent_tokens = Append(@, pag.next_token),
                                       !.all_traces = kept,
                                       !.next_token = resp.NextToken,
                                       !.got_tokens = Append(@, resp.NextToken),
                                       !.sizes = Append(@, resp.size),
                                       !.result = kept]
                         /\ PagReturn
                    ELSE /\ pag' = [pag EXCEPT !.pages = @ + 1,
                                       !.sent_tokens = Append(@, pag.next_token),
                                       !.all_traces = kept,
                                       !.next_token = resp.NextToken,
                                       !.got_tokens = Append(@, resp.NextToken),
                                       !.sizes = Append(@, resp.size)]
                         /\ pc' = "pag_loop"
                         /\ outcome' = NoOutcome
    /\ UNCHANGED <<tool, AWSConfigClass, batch, qst, sts, sli, mq, svc>>

\* =================================================== query_sampled_traces
\* start_time / end_time arguments: omitted, an ISO string without offset,
\* an ISO string with Z or an offset, or a string that is no ISO time
NoTime == [kind |-> "None", t |-> 0]
NotIsoTime == [kind |-> "invalid", t |-> 0]
StartTimeArgs ==
    {NoTime, NotIsoTime} \cup
    [kind : {"naive", "aware"}, t : {Now - MaxWindowHours - 1, Now - MaxWindowHours}]
EndTimeArgs ==
    {NoTime, NotIsoTime} \cup [kind : {"naive", "aware"}, t : {Now}]

\* end_datetime - start_datetime > timedelta(hours=6), on datetimes that
\* carry their awareness; subtracting a naive and an aware one raises
\* TypeError, fromisoformat of a malformed string raises ValueError
WindowCheck(start_time, end_time) ==
    LET end_datetime == IF end_time.kind = "None"
                        THEN [kind |-> "naive", t |-> Now]
                        ELSE end_time
        start_datetime == IF start_time.kind = "None"
                          THEN [kind |-> end_datetime.kind,
                                t |-> end_datetime.t - DefaultWindowHours]
                          ELSE start_time
    IN CASE end_time.kind = "invalid" -> "ValueError"
         [] start_time.kind = "invalid" -> "ValueError"
         [] end_datetime.kind # start_datetime.kind -> "TypeError"
         [] end_datetime.t - start_datetime.t > MaxWindowHours -> "too_large"
         [] OTHER -> "ok"

\* the window the caller asked for, in hours, when both ends are times
WindowHours(start_time, end_time) ==
    LET e == IF end_time.kind = "None" THEN Now ELSE end_time.t
        s == IF start_time.kind = "None" THEN e - DefaultWindowHours
             ELSE start_time.t
    IN e - s

TooLargeMessage == "Time window too large. Maximum allowed is 6 hours."

Call_query_sampled_traces ==
    /\ pc = "idle"
    /\ \E start_time \in StartTimeArgs, end_time \in EndTimeArgs :
         LET w == WindowCheck(start_time, end_time)
         IN /\ qst' = [QstInit EXCEPT !.start_time = start_time,
                                      !.end_time = end_time, !.window = w]
            /\ CASE w = "ok" ->
                      /\ pc' = "pag_loop"
                      /\ outcome' = NoOutcome
                      /\ pag' = [PagInit EXCEPT !.max_traces = SampledMaxTraces,
                                     !.caller = "query_sampled_traces"]
                 [] w = "too_large" ->
                      /\ pc' = "done"
                      /\ outcome' = Returned(<<"json error: ", TooLargeMessage>>)
                      /\ pag' = PagInit
                 [] OTHER ->
                      \* except Exception: json.dumps({"error": str(e)})
                      /\ pc' = "done"
                      /\ outcome' = Returned(<<"json error: ", w>>)
                      /\ pag' = PagInit
    /\ tool' = "query_sampled_traces"
    /\ failure' = NoError
    /\ requests' = <<>>
    /\ batch' = BatchInit /\ sts' = StsInit /\ sli' = SliInit /\ mq' = MqInit /\ svc' = SvcInit
    /\ UNCHANGED AWSConfigClass

\* the rest of query_sampled_traces once the helper has returned: format the
\* summaries, ask for the transaction search status, return the JSON
QstFinish ==
    /\ pc = "qst_format"
    /\ \E resp \in TxResponses :
         LET tx == check_transaction_search_enabled(resp)
         IN /\ requests' = Append(requests,
                  [api |-> "get_trace_segment_destination", arg |-> "None"])
            /\ failure' = NoteFailure(resp)
            /\ qst' = [qst EXCEPT !.tx_enabled = tx.is_enabled,
                                  !.TraceCount = Len(pag.result)]
    /\ pc' = "done"
    /\ outcome' = Returned(<<"json: ", "TraceSummaries">>)
    /\ UNCHANGED <<tool, AWSConfigClass, batch, pag, sts, sli, mq, svc>>

\* =============================================== search_transaction_spans
\* log_group_name argument: left at its default "", passed as None, or named
LogGroupArgs == {"", "None", "my-log-group"}
\* limit argument: None by default, or a number
LimitArgs == {"None", "50"}

\* `if log_group_name is None: log_group_name = "aws/spans"`
DefaultLogGroup(log_group_name) ==
    IF log_group_name = "None" THEN "aws/spans" ELSE log_group_name

\* the keys remove_null_values keeps of the start_query kwargs
remove_null_values(limit) ==
    {"startTime", "endTime", "queryString", "logGroupNames"} \cup
    (IF limit = "None" THEN {} ELSE {"limit"})

\* status values of logs get_query_results
QueryStatuses == {"Scheduled", "Running", "Complete", "Failed", "Cancelled",
                  "Timeout", "Unknown"}
\* `if status in {"Complete", "Failed", "Cancelled"}`
FinishedStatuses == {"Complete", "Failed", "Cancelled"}

\* the query id logs start_query hands out
AQueryId == "query-1"

Call_search_transaction_spans ==
    /\ pc = "idle"
    /\ \E log_group_name \in LogGroupArgs, times_valid \in BOOLEAN,
          limit \in LimitArgs, max_timeout \in 0..MaxTimeoutArg,
          resp \in TxResponses :
         LET tx == check_transaction_search_enabled(resp)
         IN /\ sts' = [StsInit EXCEPT !.log_group_name = log_group_name,
                                      !.times_valid = times_valid,
                                      !.limit = limit,
                                      !.max_timeout = max_timeout,
                                      !.is_enabled = tx.is_enabled,
                                      !.tx_response = resp,
                                      !.transaction_search_status =
                                          IF tx.is_enabled THEN NoTxStatus
                                          ELSE [enabled |-> FALSE,
                                                destination |-> tx.destination,
                                                status |-> tx.status]]
            /\ requests' = <<[api |-> "get_trace_segment_destination",
                              arg |-> "None"]>>
            /\ failure' = IF resp.type = "ok" THEN NoError
                          ELSE [type |-> resp.type, Message |-> resp.Message]
            /\ IF tx.is_enabled
               THEN /\ pc' = "sts_start"
                    /\ outcome' = NoOutcome
               ELSE /\ pc' = "done"
                    /\ outcome' = Returned(<<"dict: ",
                                            "Transaction Search Not Available">>)
    /\ tool' = "search_transaction_spans"
    /\ batch' = BatchInit /\ pag' = PagInit /\ qst' = QstInit
    /\ sli' = SliInit /\ mq' = MqInit /\ svc' = SvcInit
    /\ UNCHANGED AWSConfigClass

\* build the kwargs and start the query; every exception is re-raised
StsStartQuery ==
    /\ pc = "sts_start"
    /\ IF ~sts.times_valid
       THEN \* datetime.fromisoformat raises ValueError
            /\ pc' = "done"
            /\ outcome' = Raised([type |-> "ValueError",
                                  Message |-> "Invalid isoformat string"])
            /\ UNCHANGED <<requests, failure, sts>>
       ELSE \E resp \in RequestErrors \cup {[type |-> "ok", queryId |-> AQueryId]} :
              /\ requests' = Append(requests,
                    [api |-> "start_query",
                     arg |-> [logGroupNames |-> <<DefaultLogGroup(sts.log_group_name)>>,
                              keys |-> remove_null_values(sts.limit)]])
              /\ failure' = NoteFailure(resp)
              /\ IF resp.type # "ok"
                 THEN /\ pc' = "done"
                      /\ outcome' = Raised(resp)
                      /\ UNCHANGED sts
                 ELSE /\ pc' = "sts_poll"
                      /\ outcome' = NoOutcome
                      /\ sts' = [sts EXCEPT !.query_id = resp.queryId,
                                            !.poll_start = sts.timer]
    /\ UNCHANGED <<tool, AWSConfigClass, batch, pag, qst, sli, mq, svc>>

\* one iteration of `while poll_start + max_timeout > timer()`: the request
\* takes no time or a second; a status that is not finished is followed by
\* asyncio.sleep(1)
StsPoll ==
    /\ pc = "sts_poll"
    /\ sts.poll_start + sts.max_timeout > sts.timer
    /\ \E took \in 0..1,
          resp \in RequestErrors \cup [type : {"ok"}, status : QueryStatuses] :
         /\ requests' = Append(requests,
               [api |-> "get_query_results", arg |-> sts.query_id])
         /\ failure' = NoteFailure(resp)
         /\ IF resp.type # "ok"
            THEN /\ pc' = "done"
                 /\ outcome' = Raised(resp)
                 /\ sts' = [sts EXCEPT !.timer = @ + took]
            ELSE IF resp.status \in FinishedStatuses
            THEN /\ pc' = "done"
                 /\ outcome' = Returned(<<"dict: ", resp.status>>)
                 /\ sts' = [sts EXCEPT
                       !.timer = @ + took,
                       !.statuses = Append(@, resp.status),
                       !.result = [status |-> resp.status,
                                   queryId |-> sts.query_id,
                                   results_of |-> Len(sts.statuses) + 1]]
            ELSE /\ pc' = "sts_poll"
                 /\ outcome' = NoOutcome
                 /\ sts' = [sts EXCEPT !.timer = @ + took + 1,
                                       !.statuses = Append(@, resp.status)]
    /\ UNCHANGED <<tool, AWSConfigClass, batch, pag, qst, sli, mq, svc>>

\* the loop condition fails: no request, the "Polling Timeout" dictionary
StsPollingTimeout ==
    /\ pc = "sts_poll"
    /\ ~(sts.poll_start + sts.max_timeout > sts.timer)
    /\ pc' = "done"
    /\ outcome' = Returned(<<"dict: ", "Polling Timeout">>)
    /\ sts' = [sts EXCEPT !.result = [status |-> "Polling Timeout",
                                      queryId |-> sts.query_id,
                                      results_of |-> 0]]
    /\ UNCHANGED <<tool, failure, requests, AWSConfigClass, batch, pag, qst,
                   sli, mq, svc>>

\* ======================================================= sli_report_client
\* A string is the sequence of its characters; a run of characters that holds
\* neither a colon nor a digit may stand as one piece ("aws", "us-east-1").
Digits == {"0", "1", "2", "3", "4", "5", "6", "7", "8", "9"}

\* s.split(':')
RECURSIVE Split(_)
Split(s) ==
    IF ":" \notin Range(s) THEN <<s>>
    ELSE LET i == CHOOSE j \in 1..Len(s) :
                     s[j] = ":" /\ \A k \in 1..(j - 1) : s[k] # ":"
         IN <<SubSeq(s, 1, i - 1)>> \o Split(SubSeq(s, i + 1, Len(s)))

\* ':'.join(fields)
RECURSIVE Join(_)
Join(fields) ==
    IF Len(fields) = 0 THEN <<>>
    ELSE IF Len(fields) = 1 THEN fields[1]
    ELSE fields[1] \o <<":">> \o Join(Tail(fields))

\* s.isdigit()
isdigit(s) == s # <<>> /\ \A i \in 1..Len(s) : s[i] \in Digits

\* account IDs appearing in the responses
AccountA == <<"1", "1", "1", "1", "2", "2", "2", "2", "3", "3", "3", "3">>
AccountB == <<"9", "9", "9", "9", "8", "8", "8", "8", "7", "7", "7", "7">>

\* arn:aws:application-signals:<region>:<account>:slo/<name>
ArnOf(account) ==
    Join(<< <<"arn">>, <<"aws">>, <<"application-signals">>, <<"us-east-1">>,
            account, <<"slo/checkout">> >>)

\* KeyAttributes of an SLO in a list_service_level_objectives response: no
\* AwsAccountId, or one that is empty, 12 digits, 12 characters that are not
\* all digits, 11 digits or 13 digits
NoAccountKey == [has |-> FALSE, AwsAccountId |-> <<>>]
SloKeyAttributes ==
    {NoAccountKey} \cup
    [has : {TRUE},
     AwsAccountId : {<<>>, AccountA, Take(AccountA, AccountIdLen - 1) \o <<"x">>,
                     Take(AccountA, AccountIdLen - 1), AccountA \o <<"4">>}]

\* one entry of SloSummaries in a list_service_level_objectives response
SloResponseEntries ==
    [Name : {"checkout"}, account : {AccountB},
     KeyAttributes : SloKeyAttributes,
     EvaluationType : {"RequestBased", "PeriodBased", "absent"}]

\* SLOSummary(...) as get_slo_summaries builds it from a response entry
SLOSummary(slo) ==
    [name |-> slo.Name,
     arn |-> ArnOf(slo.account),
     key_attributes |-> slo.KeyAttributes,
     evaluation_type |-> IF slo.EvaluationType = "absent" THEN "PeriodBased"
                         ELSE slo.EvaluationType]

get_slo_summaries(SloSummaries) ==
    [i \in 1..Len(SloSummaries) |-> SLOSummary(SloSummaries[i])]

\* the fifth field of the ARN; a colon-free ARN gives ""
arn_account_id(arn) ==
    IF ":" \in Range(arn)
    THEN LET fields == Split(arn)
         IN IF Len(fields) >= 5 THEN fields[5] ELSE <<"IndexError">>
    ELSE <<>>

\* a resolution in which the key attribute wins whatever the evaluation type
get_account_id_any_type(slo) ==
    LET aws_account_id == slo.key_attributes.AwsAccountId
    IN IF /\ slo.key_attributes.has
          /\ aws_account_id # <<>>
          /\ isdigit(aws_account_id)
          /\ Len(aws_account_id) = AccountIdLen
       THEN aws_account_id
       ELSE arn_account_id(slo.arn)

get_account_id_for_slo(slo) ==
    LET is_request_based == slo.evaluation_type = "RequestBased"
        aws_account_id == slo.key_attributes.AwsAccountId
    IN IF is_request_based
       THEN IF /\ slo.key_attributes.has
               /\ aws_account_id # <<>>
               /\ isdigit(aws_account_id)
               /\ Len(aws_account_id) = AccountIdLen
            THEN aws_account_id
            ELSE arn_account_id(slo.arn)
       ELSE arn_account_id(slo.arn)

\* AWSConfig.__init__: period_in_hours = min(period_in_hours, 24)
AWSConfig(period_in_hours) ==
    [period_in_hours |-> IF period_in_hours < 24 THEN period_in_hours ELSE 24]

create_metric_queries(config, slo_summaries) ==
    [i \in 1..Len(slo_summaries) |->
        [Id |-> <<"slo", i - 1>>,
         MetricName |-> "BreachedCount",
         SloName |-> slo_summaries[i].name,
         Period |-> config.period_in_hours * 60 * 60,
         Stat |-> "Maximum",
         AccountId |-> get_account_id_for_slo(slo_summaries[i])]]

\* hours arguments of list_slis and create_metric_queries' config
HoursArgs == {24, 48}

\* lists of n entries drawn from S
ListsOf(S, n) == [1..n -> S]

\* SLIReportClient.create_metric_queries called on the summaries of a
\* list_service_level_objectives response
Call_create_metric_queries ==
    /\ pc = "idle"
    /\ \E hours \in HoursArgs, n \in 1..MaxSlos :
         \E SloSummaries \in ListsOf(SloResponseEntries, n) :
            mq' = [SloSummaries |-> SloSummaries,
                   queries |-> create_metric_queries(AWSConfig(hours),
                                  get_slo_summaries(SloSummaries))]
    /\ pc' = "done"
    /\ tool' = "create_metric_queries"
    /\ outcome' = Returned(<<"metric queries">>)
    /\ failure' = NoError
    /\ requests' = <<>>
    /\ batch' = BatchInit /\ pag' = PagInit /\ qst' = QstInit /\ sts' = StsInit
    /\ sli' = SliInit /\ svc' = SvcInit
    /\ UNCHANGED AWSConfigClass

\* a status that turns "CRITICAL" only from the second breaching SLO on
get_sli_status_from_two(num_breaching) ==
    IF num_breaching > 1 THEN "CRITICAL" ELSE "OK"

get_sli_status(num_breaching) ==
    IF num_breaching > 0 THEN "CRITICAL" ELSE "OK"

\* `result.values and len(result.values) > 0 and result.values[0] > 0`
IsBreaching(values) == values # <<>> /\ Len(values) > 0 /\ values[1] > 0

\* the sub-sequence of s at the indices satisfying Keep
RECURSIVE SelectIdx(_, _, _)
SelectIdx(s, keep, i) ==
    IF i > Len(s) THEN <<>>
    ELSE (IF i \in keep THEN <<s[i]>> ELSE <<>>) \o SelectIdx(s, keep, i + 1)

\* generate_sli_report once both responses are in: metric_results[i] is read
\* as the result of slo_summaries[i]
generate_sli_report(slo_summaries, metric_results) ==
    IF Len(slo_summaries) = 0
    THEN [sli_status |-> "OK", total_slo_count |-> 0, ok_slo_count |-> 0,
          breached_slo_count |-> 0, breached_slo_names |-> <<>>]
    ELSE LET breaching == {i \in 1..Len(metric_results) :
                              IsBreaching(metric_results[i])}
             healthy == (1..Len(metric_results)) \ breaching
             arns == [i \in 1..Len(slo_summaries) |-> slo_summaries[i].arn]
             breaching_slos == SelectIdx(arns, breaching, 1)
         IN [sli_status |-> get_sli_status(Len(breaching_slos)),
             total_slo_count |-> Len(slo_summaries),
             ok_slo_count |-> Cardinality(healthy),
             breached_slo_count |-> Len(breaching_slos),
             breached_slo_names |-> breaching_slos]

\* ============================================================== list_slis
\* Values of one MetricDataResult: none, a first value > 0, or a first value
\* of 0 followed by a value > 0
MetricValues == {<<>>, <<1>>, <<0, 1>>}

\* the SLOs list_service_level_objectives reports for a service
SlosOfService(n) ==
    [k \in 1..n |->
        [Name |-> <<"slo", k>>, account |-> AccountB,
         KeyAttributes |-> NoAccountKey, EvaluationType |-> "PeriodBased"]]

\* the report dictionary list_slis builds from an SLIReport
ReportOf(sli_report) ==
    [SliStatus |-> IF sli_report.sli_status = "CRITICAL" THEN "BREACHED"
                   ELSE sli_report.sli_status,
     BreachedSloCount |-> sli_report.breached_slo_count,
     BreachedSloNames |-> sli_report.breached_slo_names,
     OkSloCount |-> sli_report.ok_slo_count,
     TotalSloCount |-> sli_report.total_slo_count]

\* the report list_slis adds when generating the SLI report raised
InsufficientData ==
    [SliStatus |-> "INSUFFICIENT_DATA", BreachedSloCount |-> 0,
     BreachedSloNames |-> <<>>, OkSloCount |-> 0, TotalSloCount |-> 0]

Call_list_slis ==
    /\ pc = "idle"
    /\ \E hours \in HoursArgs,
          resp \in RequestErrors \cup [type : {"ok"}, services : 0..MaxServices] :
         /\ requests' = <<[api |-> "list_services", arg |-> "None"]>>
         /\ failure' = IF resp.type = "ok" THEN NoError
                       ELSE [type |-> resp.type, Message |-> resp.Message]
         /\ IF resp.type # "ok"
            THEN /\ pc' = "done"
                 /\ outcome' = Returned(<<"Error getting SLI status: ">>
                                        \o StrOf(resp))
                 /\ sli' = [SliInit EXCEPT !.hours = hours]
            ELSE IF resp.services = 0
            THEN /\ pc' = "done"
                 /\ outcome' = Returned(<<"No services found in Application Signals.">>)
                 /\ sli' = [SliInit EXCEPT !.hours = hours]
            ELSE /\ pc' = "sli_loop"
                 /\ outcome' = NoOutcome
                 /\ sli' = [SliInit EXCEPT !.hours = hours,
                                           !.services = resp.services]
    /\ tool' = "list_slis"
    /\ batch' = BatchInit /\ pag' = PagInit /\ qst' = QstInit /\ sts' = StsInit
    /\ mq' = MqInit /\ svc' = SvcInit
    /\ UNCHANGED AWSConfigClass

\* one iteration of `for service in services`: the AWSConfig class gets its
\* key_attributes property replaced, then the SLI report of the service is
\* generated from a list_service_level_objectives and a get_metric_data
\* response; an exception of either gives the INSUFFICIENT_DATA report
SliService ==
    /\ pc = "sli_loop"
    /\ sli.i < sli.services
    /\ AWSConfigClass' = "patched"
    /\ \E slo_resp \in RequestErrors \cup [type : {"ok"}, slos : 0..MaxSlos] :
         LET config == AWSConfig(sli.hours)
             slo_request == [api |-> "list_service_level_objectives",
                             arg |-> "None"]
         IN IF slo_resp.type # "ok"
            THEN /\ requests' = Append(requests, slo_request)
                 /\ failure' = NoteFailure(slo_resp)
                 /\ sli' = [sli EXCEPT
                       !.i = @ + 1,
                       !.reports = Append(@, InsufficientData),
                       !.inputs = Append(@, [error |-> TRUE, values |-> <<>>])]
            ELSE IF slo_resp.slos = 0
            THEN /\ requests' = Append(requests, slo_request)
                 /\ failure' = failure
                 /\ sli' = [sli EXCEPT
                       !.i = @ + 1,
                       !.reports = Append(@, ReportOf(generate_sli_report(<<>>, <<>>))),
                       !.inputs = Append(@, [error |-> FALSE, values |-> <<>>])]
            ELSE LET slo_summaries == get_slo_summaries(SlosOfService(slo_resp.slos))
                     queries == create_metric_queries(config, slo_summaries)
                     metric_request == [api |-> "get_metric_data",
                                        arg |-> Len(queries)]
                 IN \E metric_resp \in RequestErrors \cup
                          [type : {"ok"},
                           values : ListsOf(MetricValues, slo_resp.slos)] :
                      /\ requests' = requests \o <<slo_request, metric_request>>
                      /\ failure' = NoteFailure(metric_resp)
                      /\ IF metric_resp.type # "ok"
                         THEN sli' = [sli EXCEPT
                                !.i = @ + 1,
                                !.reports = Append(@, InsufficientData),
                                !.inputs = Append(@, [error |-> TRUE,
                                                      values |-> <<>>])]
                         ELSE sli' = [sli EXCEPT
                                !.i = @ + 1,
                                !.reports = Append(@, ReportOf(
                                    generate_sli_report(slo_summaries,
                                                        metric_resp.values))),
                                !.inputs = Append(@, [error |-> FALSE,
                                                      values |-> metric_resp.values])]
    /\ pc' = IF sli.i + 1 = sli.services THEN "sli_tx" ELSE "sli_loop"
    /\ outcome' = NoOutcome
    /\ UNCHANGED <<tool, batch, pag, qst, sts, mq, svc>>

\* the transaction search status is asked for and the report text returned
SliFinish ==
    /\ pc = "sli_tx"
    /\ \E resp \in TxResponses :
         /\ requests' = Append(requests,
               [api |-> "get_trace_segment_destination", arg |-> "None"])
         /\ failure' = NoteFailure(resp)
         /\ sli' = [sli EXCEPT
               !.tx_enabled = check_transaction_search_enabled(resp).is_enabled]
    /\ pc' = "done"
    /\ outcome' = Returned(<<"SLI Status Report - Last ", sli.hours, " hours">>)
    /\ UNCHANGED <<tool, AWSConfigClass, batch, pag, qst, sts, mq, svc>>

\* ==================================== tools built on one or a few requests
\* the error of a response, NoError for a response that is no exception
ErrorOf(resp) ==
    IF resp.type = "ok" THEN NoError
    ELSE [type |-> resp.type, Message |-> resp.Message]

\* a call that ran from its first line to a return in one step
Ends(reqs, err, out) ==
    /\ pc' = "done"
    /\ requests' = reqs
    /\ failure' = err
    /\ outcome' = out

ListServices == [api |-> "list_services", arg |-> "None"]

\* all lists of at most n entries drawn from S
ListsUpTo(S, n) == UNION {ListsOf(S, k) : k \in 0..n}

\* KeyAttributes.Name of a service summary; a key that is missing is "absent"
ServiceNames == {"checkout", "payments", "absent"}

\* answers of list_services: an exception, or the service summaries
ListServicesResponses ==
    RequestErrors \cup
    [type : {"ok"}, ServiceSummaries : ListsUpTo(ServiceNames, MaxServices)]

\* key_attrs.get("Name", "Unknown")
NameOrUnknown(name) == IF name = "absent" THEN "Unknown" ELSE name

\* the lines of the services, one entry after the other
RECURSIVE ServiceLines(_)
ServiceLines(services) ==
    IF services = <<>> THEN <<>>
    ELSE <<"Service: ", NameOrUnknown(Head(services))>>
         \o ServiceLines(Tail(services))

\* the text list_monitored_services returns for a response
ServicesText(services) ==
    IF services = <<>>
    THEN <<"No services found in Application Signals.">>
    ELSE <<"Application Signals Services (", Len(services), " total):">>
         \o ServiceLines(services)

Call_list_monitored_services ==
    /\ pc = "idle"
    /\ \E resp \in ListServicesResponses :
         LET services == IF resp.type = "ok" THEN resp.ServiceSummaries ELSE <<>>
         IN /\ svc' = [SvcInit EXCEPT !.services = Len(services),
                                      !.listed = services]
            /\ Ends(<<ListServices>>, ErrorOf(resp),
                    IF resp.type # "ok" THEN Returned(FormatError(resp))
                    ELSE Returned(ServicesText(services)))
    /\ tool' = "list_monitored_services"
    /\ batch' = BatchInit /\ pag' = PagInit /\ qst' = QstInit /\ sts' = StsInit
    /\ sli' = SliInit /\ mq' = MqInit
    /\ UNCHANGED AWSConfigClass

\* answers of list_services as the lookup by name sees them
LookupResponses == RequestErrors \cup [type : {"ok"}, found : BOOLEAN]

Call_get_service_detail ==
    /\ pc = "idle"
    /\ \E services_response \in LookupResponses,
          service_response \in RequestErrors \cup {[type |-> "ok"]} :
         LET GetService == [api |-> "get_service", arg |-> "my-service"]
         IN IF services_response.type # "ok"
            THEN Ends(<<ListServices>>, ErrorOf(services_response),
                      Returned(FormatError(services_response)))
            ELSE IF ~services_response.found
            THEN Ends(<<ListServices>>, NoError,
                      Returned(<<"Service '", "my-service",
                                 "' not found in Application Signals.">>))
            ELSE IF service_response.type # "ok"
            THEN Ends(<<ListServices, GetService>>, ErrorOf(service_response),
                      Returned(FormatError(service_response)))
            ELSE Ends(<<ListServices, GetService>>, NoError,
                      Returned(<<"Service Details: ", "my-service">>))
    /\ svc' = [SvcInit EXCEPT !.service_name = "my-service"]
    /\ tool' = "get_service_detail"
    /\ batch' = BatchInit /\ pag' = PagInit /\ qst' = QstInit /\ sts' = StsInit
    /\ sli' = SliInit /\ mq' = MqInit
    /\ UNCHANGED AWSConfigClass

\* hours arguments of query_service_metrics around the two thresholds
MetricHours == {1, 3, 4, 24, 25}
\* metric_name arguments: empty, a metric of the service, an unknown one
MetricNames == {"", "Latency", "Throughput"}

\* thresholds that leave the look-backs of exactly 3 and 24 hours to the
\* coarser period
PeriodForBelow(hours) ==
    IF hours < 3 THEN 60
    ELSE IF hours < 24 THEN 300
    ELSE 3600

\* `if hours <= 3 ... elif hours <= 24 ... else`
PeriodFor(hours) ==
    IF hours <= 3 THEN 60
    ELSE IF hours <= 24 THEN 300
    ELSE 3600

Call_query_service_metrics ==
    /\ pc = "idle"
    /\ \E hours \in MetricHours, metric_name \in MetricNames,
          services_response \in LookupResponses,
          service_response \in RequestErrors \cup
                               [type : {"ok"}, MetricReferences : {<<>>, <<"Latency">>}],
          response \in RequestErrors \cup [type : {"ok"}, Datapoints : 0..1] :
         LET GetService == [api |-> "get_service", arg |-> "my-service"]
             period == PeriodFor(hours)
             GetStatistics == [api |-> "get_metric_statistics", arg |-> period]
         IN /\ svc' = [SvcInit EXCEPT !.service_name = "my-service",
                                      !.metric_name = metric_name,
                                      !.hours = hours,
                                      !.period = period]
            /\ IF services_response.type # "ok"
               THEN Ends(<<ListServices>>, ErrorOf(services_response),
                         Returned(FormatError(services_response)))
               ELSE IF ~services_response.found
               THEN Ends(<<ListServices>>, NoError,
                         Returned(<<"Service '", "my-service",
                                    "' not found in Application Signals.">>))
               ELSE IF service_response.type # "ok"
               THEN Ends(<<ListServices, GetService>>, ErrorOf(service_response),
                         Returned(FormatError(service_response)))
               ELSE IF service_response.MetricReferences = <<>>
               THEN Ends(<<ListServices, GetService>>, NoError,
                         Returned(<<"No metrics found for service '",
                                    "my-service", "'.">>))
               ELSE IF metric_name = ""
               THEN Ends(<<ListServices, GetService>>, NoError,
                         Returned(<<"Available metrics for service '",
                                    "my-service", "':">>))
               ELSE IF metric_name \notin Range(service_response.MetricReferences)
               THEN Ends(<<ListServices, GetService>>, NoError,
                         Returned(<<"Metric '", metric_name, "' not found for service '",
                                    "my-service", "'.">>))
               ELSE IF response.type # "ok"
               THEN Ends(<<ListServices, GetService, GetStatistics>>,
                         ErrorOf(response), Returned(FormatError(response)))
               ELSE IF response.Datapoints = 0
               THEN Ends(<<ListServices, GetService, GetStatistics>>, NoError,
                         Returned(<<"No data points found for metric '",
                                    metric_name, "'">>))
               ELSE Ends(<<ListServices, GetService, GetStatistics>>, NoError,
                         Returned(<<"Metrics for ", "my-service", " - ",
                                    metric_name, "Period: ", period, " seconds">>))
    /\ tool' = "query_service_metrics"
    /\ batch' = BatchInit /\ pag' = PagInit /\ qst' = QstInit /\ sts' = StsInit
    /\ sli' = SliInit /\ mq' = MqInit
    /\ UNCHANGED AWSConfigClass

\* ------------------------------------- the prototype, appsignals/appsignals.py
\* metric_name arguments of get_service_metrics: None by default, a metric of
\* the service, an unknown one
PrototypeMetricNames == {"None", "Latency", "Throughput"}

\* `if hours <= 3 ... elif hours <= 24 ... else` of get_service_metrics
get_service_metrics_period(hours) ==
    IF hours <= 3 THEN 60
    ELSE IF hours <= 24 THEN 300
    ELSE 3600

Call_get_service_metrics ==
    /\ pc = "idle"
    /\ \E hours \in MetricHours, metric_name \in PrototypeMetricNames,
          services_response \in LookupResponses,
          service_response \in RequestErrors \cup
                               [type : {"ok"}, MetricReferences : {<<>>, <<"Latency">>}],
          response \in RequestErrors \cup [type : {"ok"}, Datapoints : 0..1] :
         LET GetService == [api |-> "get_service", arg |-> "my-service"]
             period == get_service_metrics_period(hours)
             GetStatistics == [api |-> "get_metric_statistics", arg |-> period]
         IN /\ svc' = [SvcInit EXCEPT !.service_name = "my-service",
                                      !.metric_name = metric_name,
                                      !.hours = hours,
                                      !.period = period]
            /\ IF services_response.type # "ok"
               THEN Ends(<<ListServices>>, ErrorOf(services_response),
                         Returned(FormatError(services_response)))
               ELSE IF ~services_response.found
               THEN Ends(<<ListServices>>, NoError,
                         Returned(<<"Service '", "my-service",
                                    "' not found in Application Signals.">>))
               ELSE IF service_response.type # "ok"
               THEN Ends(<<ListServices, GetService>>, ErrorOf(service_response),
                         Returned(FormatError(service_response)))
               ELSE IF service_response.MetricReferences = <<>>
               THEN Ends(<<ListServices, GetService>>, NoError,
                         Returned(<<"No metrics found for service '",
                                    "my-service", "'.">>))
               ELSE IF metric_name = "None"
               THEN Ends(<<ListServices, GetService>>, NoError,
                         Returned(<<"Available metrics for service '",
                                    "my-service", "':">>))
               ELSE IF metric_name \notin Range(service_response.MetricReferences)
               THEN Ends(<<ListServices, GetService>>, NoError,
                         Returned(<<"Metric '", metric_name, "' not found for service '",
                                    "my-service", "'.">>))
               ELSE IF response.type # "ok"
               THEN Ends(<<ListServices, GetService, GetStatistics>>,
                         ErrorOf(response), Returned(FormatError(response)))
               ELSE IF response.Datapoints = 0
               THEN Ends(<<ListServices, GetService, GetStatistics>>, NoError,
                         Returned(<<"No data points found for metric '",
                                    metric_name, "'">>))
               ELSE Ends(<<ListServices, GetService, GetStatistics>>, NoError,
                         Returned(<<"Metrics for ", "my-service", " - ",
                                    metric_name, "Period: ", period, " seconds">>))
    /\ tool' = "get_service_metrics"
    /\ batch' = BatchInit /\ pag' = PagInit /\ qst' = QstInit /\ sts' = StsInit
    /\ sli' = SliInit /\ mq' = MqInit
    /\ UNCHANGED AWSConfigClass

\* names of the buckets of the account
BucketNames == {"test-bucket-1", "test-bucket-2"}

\* answers of s3 list_buckets: an exception, or the buckets
ListBucketsResponses ==
    RequestErrors \cup
    [type : {"ok"}, Buckets : ListsUpTo(BucketNames, MaxBuckets)]

\* bucket_list, one line per bucket
RECURSIVE BucketLines(_)
BucketLines(buckets) ==
    IF buckets = <<>> THEN <<>>
    ELSE <<Head(buckets), " (Created: ...)">> \o BucketLines(Tail(buckets))

\* a listing whose loop stops one bucket short
BucketsTextWithoutLast(buckets) ==
    IF buckets = <<>>
    THEN <<"No S3 buckets found.">>
    ELSE <<"S3 Buckets (", Len(buckets), " total):">>
         \o BucketLines(SubSeq(buckets, 1, Len(buckets) - 1))

\* the text list_s3_buckets returns for a response
BucketsText(buckets) ==
    IF buckets = <<>>
    THEN <<"No S3 buckets found.">>
    ELSE <<"S3 Buckets (", Len(buckets), " total):">> \o BucketLines(buckets)

Call_list_s3_buckets ==
    /\ pc = "idle"
    /\ \E resp \in ListBucketsResponses :
         LET buckets == IF resp.type = "ok" THEN resp.Buckets ELSE <<>>
         IN /\ svc' = [SvcInit EXCEPT !.listed = buckets]
            /\ Ends(<<[api |-> "list_buckets", arg |-> "None"]>>, ErrorOf(resp),
                    IF resp.type = "ClientError"
                    THEN Returned(<<"AWS Error: ", resp.Message>>)
                    ELSE IF resp.type = "Exception"
                    THEN Returned(<<"Error listing buckets: ">> \o StrOf(resp))
                    ELSE Returned(BucketsText(buckets)))
    /\ tool' = "list_s3_buckets"
    /\ batch' = BatchInit /\ pag' = PagInit /\ qst' = QstInit /\ sts' = StsInit
    /\ sli' = SliInit /\ mq' = MqInit
    /\ UNCHANGED AWSConfigClass

\* the lines of the services as the prototype prints them
RECURSIVE PrototypeServiceLines(_)
PrototypeServiceLines(services) ==
    IF services = <<>> THEN <<>>
    ELSE <<"Service: ", NameOrUnknown(Head(services))>>
         \o PrototypeServiceLines(Tail(services))

Call_list_application_signals_services ==
    /\ pc = "idle"
    /\ \E resp \in ListServicesResponses :
         LET services == IF resp.type = "ok" THEN resp.ServiceSummaries ELSE <<>>
         IN /\ svc' = [SvcInit EXCEPT !.services = Len(services),
                                      !.listed = services]
            /\ Ends(<<ListServices>>, ErrorOf(resp),
                    IF resp.type # "ok" THEN Returned(FormatError(resp))
                    ELSE IF services = <<>>
                    THEN Returned(<<"No services found in Application Signals.">>)
                    ELSE Returned(<<"Application Signals Services (",
                                    Len(services), " total):">>
                                  \o PrototypeServiceLines(services)))
    /\ tool' = "list_application_signals_services"
    /\ batch' = BatchInit /\ pag' = PagInit /\ qst' = QstInit /\ sts' = StsInit
    /\ sli' = SliInit /\ mq' = MqInit
    /\ UNCHANGED AWSConfigClass

Call_get_slo ==
    /\ pc = "idle"
    /\ \E response \in RequestErrors \cup [type : {"ok"}, Slo : {"absent", "slo"}] :
         Ends(<<[api |-> "get_service_level_objective", arg |-> "my-slo"]>>,
              ErrorOf(response),
              IF response.type # "ok" THEN Returned(FormatError(response))
              ELSE IF response.Slo = "absent"
              THEN Returned(<<"No SLO found with ID: ", "my-slo">>)
              ELSE Returned(<<"Service Level Objective Details">>))
    /\ svc' = SvcInit
    /\ tool' = "get_slo"
    /\ batch' = BatchInit /\ pag' = PagInit /\ qst' = QstInit /\ sts' = StsInit
    /\ sli' = SliInit /\ mq' = MqInit
    /\ UNCHANGED AWSConfigClass

\* ------------------------------------------------- the server object `mcp`
\* the functions of server.py decorated with @mcp.tool(), in file order
RegisteredTools ==
    <<"list_monitored_services", "get_service_detail", "query_service_metrics",
      "get_slo", "search_transaction_spans", "list_slis", "query_sampled_traces">>

\* tool names a client may ask for that server.py does not register
OtherToolNames ==
    {"unknown_tool", "list_s3_buckets", "list_application_signals_services",
     "get_service_metrics"} \ Range(RegisteredTools)

\* a tools/list request: the names registered on `mcp`
Call_list_tools ==
    /\ pc = "idle"
    /\ svc' = [SvcInit EXCEPT !.listed = RegisteredTools]
    /\ Ends(<<>>, NoError, Returned(RegisteredTools))
    /\ tool' = "list_tools"
    /\ batch' = BatchInit /\ pag' = PagInit /\ qst' = QstInit /\ sts' = StsInit
    /\ sli' = SliInit /\ mq' = MqInit
    /\ UNCHANGED AWSConfigClass

\* a tools/call request for a name that is not registered: server.py has no
\* handler for it, and the FastMCP object answers with an error that reaches
\* the caller as an exception or as an error text
Call_unregistered_tool ==
    /\ pc = "idle"
    /\ \E name \in OtherToolNames :
         /\ svc' = [SvcInit EXCEPT !.name = name]
         /\ \/ Ends(<<>>, NoError,
                     Raised([type |-> "ToolError", Message |-> name]))
            \/ Ends(<<>>, NoError, Returned(<<"Unknown tool: ", name>>))
    /\ tool' = "call_tool"
    /\ batch' = BatchInit /\ pag' = PagInit /\ qst' = QstInit /\ sts' = StsInit
    /\ sli' = SliInit /\ mq' = MqInit
    /\ UNCHANGED AWSConfigClass

\* ================================================================ Respond
\* the outcome goes back to the caller; nothing of the call is kept but the
\* module and class state
Respond ==
    /\ pc = "done"
    /\ pc' = "idle"
    /\ tool' = "none"
    /\ outcome' = NoOutcome
    /\ failure' = NoError
    /\ requests' = <<>>
    /\ batch' = BatchInit /\ pag' = PagInit /\ qst' = QstInit /\ sts' = StsInit
    /\ sli' = SliInit /\ mq' = MqInit /\ svc' = SvcInit
    /\ UNCHANGED AWSConfigClass

Init ==
    /\ pc = "idle"
    /\ tool = "none"
    /\ outcome = NoOutcome
    /\ failure = NoError
    /\ requests = <<>>
    /\ AWSConfigClass = "original"
    /\ batch = BatchInit
    /\ pag = PagInit
    /\ qst = QstInit
    /\ sts = StsInit
    /\ sli = SliInit
    /\ mq = MqInit
    /\ svc = SvcInit

Next ==
    \/ Call_get_batch_traces
    \/ BatchIteration
    \/ Call_get_trace_summaries_paginated
    \/ PagIteration
    \/ Call_query_sampled_traces
    \/ QstFinish
    \/ Call_search_transaction_spans
    \/ StsStartQuery
    \/ StsPoll
    \/ StsPollingTimeout
    \/ Call_create_metric_queries
    \/ Call_list_slis
    \/ SliService
    \/ SliFinish
    \/ Call_list_monitored_services
    \/ Call_get_service_detail
    \/ Call_query_service_metrics
    \/ Call_get_service_metrics
    \/ Call_list_s3_buckets
    \/ Call_list_tools
    \/ Call_unregistered_tool
    \/ Call_list_application_signals_services
    \/ Call_get_slo
    \/ Respond

Spec == Init /\ [][Next]_vars

\* ------------------------------------------------------------------- C3
\* C3: get_batch_traces never retries: while the call runs no trace ID has
\* been sent in more than one batch_get_traces request, and when it has
\* returned every input ID has been sent in exactly one request, whatever
\* the responses were (traces, UnprocessedTraceIds or an exception).
C3_EachIdSentOnce ==
    tool = "get_batch_traces" =>
        /\ \A i \in 1..MaxIds : batch.sent[i] <= 1
        /\ pc = "done" =>
             \A i \in 1..MaxIds :
                 batch.sent[i] = IF i <= Len(batch.trace_ids) THEN 1 ELSE 0

\* a call with more IDs than one batch holds has returned after a request
\* failed and another reported an unprocessed ID
C3_Witness ==
    /\ tool = "get_batch_traces"
    /\ pc = "done"
    /\ Len(batch.trace_ids) > BatchSize
    /\ Len(requests) = 2
    /\ Len(batch.result) < Len(batch.trace_ids) - 1
\* ------------------------------------------------------------------- C7
\* C7: get_trace_summaries_paginated never returns more than max_traces
\* trace summaries, whatever the page sizes and NextTokens were, and
\* query_sampled_traces never returns more than 100 trace summaries.
C7_AtMostMaxTraces ==
    /\ (pag.caller # "none" /\ pc # "pag_loop") =>
           Len(pag.result) <= pag.max_traces
    /\ (tool = "query_sampled_traces" /\ pc = "done") =>
           qst.TraceCount <= SampledMaxTraces

\* ------------------------------------------------------------------- C8
\* the requests of the running call to one API
RequestsTo(api) == {i \in 1..Len(requests) : requests[i].api = api}

\* C8: query_sampled_traces sends get_trace_summaries only for a window of at
\* most 6 hours, and for a longer window it returns the JSON error "Time
\* window too large. Maximum allowed is 6 hours." without any such request.
C8_WindowChecked ==
    (/\ tool = "query_sampled_traces"
     /\ qst.start_time.kind # "invalid"
     /\ qst.end_time.kind # "invalid") =>
        /\ RequestsTo("get_trace_summaries") # {} =>
               WindowHours(qst.start_time, qst.end_time) <= MaxWindowHours
        /\ (pc = "done" /\ WindowHours(qst.start_time, qst.end_time) > MaxWindowHours) =>
               /\ outcome = Returned(<<"json error: ", TooLargeMessage>>)
               /\ RequestsTo("get_trace_summaries") = {}
\* ------------------------------------------------------------------- C9
\* C9: a search_transaction_spans call that leaves log_group_name at its
\* default starts its CloudWatch Logs query against the log group 'aws/spans'.
C9_DefaultLogGroup ==
    (tool = "search_transaction_spans" /\ sts.log_group_name = "") =>
        \A i \in RequestsTo("start_query") :
            requests[i].arg.logGroupNames = <<"aws/spans">>

\* ------------------------------------------------------------------ C10
\* the first get_query_results response with a finished status, 0 if none
FirstFinished(statuses) ==
    IF \E i \in 1..Len(statuses) : statuses[i] \in FinishedStatuses
    THEN CHOOSE i \in 1..Len(statuses) :
            /\ statuses[i] \in FinishedStatuses
            /\ \A j \in 1..(i - 1) : statuses[j] \notin FinishedStatuses
    ELSE 0

\* C10: search_transaction_spans starts at most one query per call, and a
\* call that started a query ends by returning either the results of the
\* first get_query_results response whose status is Complete, Failed or
\* Cancelled, or, when max_timeout seconds passed without one, status
\* "Polling Timeout" with the queryId of the started query.
C10_PollUntilFinishedOrTimeout ==
    tool = "search_transaction_spans" =>
        /\ Cardinality(RequestsTo("start_query")) <= 1
        /\ (pc = "done" /\ sts.query_id # "None") =>
             /\ outcome.kind = "return"
             /\ sts.result.queryId = sts.query_id
             /\ \/ /\ sts.result.status \in FinishedStatuses
                   /\ sts.result.results_of = FirstFinished(sts.statuses)
                   /\ sts.result.results_of = Len(sts.statuses)
                   /\ sts.statuses[sts.result.results_of] = sts.result.status
                \/ /\ sts.result.status = "Polling Timeout"
                   /\ FirstFinished(sts.statuses) = 0
                   /\ sts.timer >= sts.poll_start + sts.max_timeout
\* ------------------------------------------------------------------ C11
\* the CloudWatch Logs requests of the running call
LogsRequests == RequestsTo("start_query") \cup RequestsTo("get_query_results")

\* what get_trace_segment_destination answered: CloudWatchLogs and ACTIVE
ReportsActiveCloudWatchLogs(resp) ==
    /\ resp.type = "ok"
    /\ resp.Destination = "CloudWatchLogs"
    /\ resp.Status = "ACTIVE"

\* C11: search_transaction_spans makes a CloudWatch Logs request only if the
\* trace segment destination check answered Destination = "CloudWatchLogs"
\* and Status = "ACTIVE"; after any other answer, an exception included, it
\* returns status "Transaction Search Not Available" with
\* transaction_search_status.enabled = False and has made no such request.
C11_QueryOnlyWhenEnabled ==
    tool = "search_transaction_spans" =>
        /\ LogsRequests # {} => ReportsActiveCloudWatchLogs(sts.tx_response)
        /\ ~ReportsActiveCloudWatchLogs(sts.tx_response) =>
               /\ pc = "done"
               /\ outcome = Returned(<<"dict: ", "Transaction Search Not Available">>)
               /\ sts.transaction_search_status.enabled = FALSE
               /\ LogsRequests = {}

\* the destination check raised and the call returned without a query
C11_Witness ==
    /\ tool = "search_transaction_spans"
    /\ pc = "done"
    /\ sts.tx_response \in RequestErrors
    /\ sts.transaction_search_status =
           [enabled |-> FALSE, destination |-> "Unknown", status |-> "Error"]
    /\ Len(requests) = 1

\* ------------------------------------------------------------------ C12
\* the period the claim names for a look-back of `hours`
ClaimedPeriod(hours) ==
    CASE hours <= 3 -> 60
      [] hours > 3 /\ hours <= 24 -> 300
      [] hours > 24 -> 3600

\* the number printed after "Period: " in a text, 0 when none is printed
PrintedPeriod(text) ==
    IF \E i \in 1..(Len(text) - 1) : text[i] = "Period: "
    THEN text[(CHOOSE i \in 1..(Len(text) - 1) : text[i] = "Period: ") + 1]
    ELSE 0

\* C12: every get_metric_statistics request of query_service_metrics and of
\* the prototype's get_service_metrics carries Period 60 for hours <= 3, 300
\* for 3 < hours <= 24 and 3600 for hours > 24, and a result that prints a
\* period prints the one that was sent.
C12_PeriodFromLookBack ==
    (tool \in {"query_service_metrics", "get_service_metrics"} /\ pc = "done") =>
        /\ \A i \in RequestsTo("get_metric_statistics") :
               requests[i].arg = ClaimedPeriod(svc.hours)
        /\ PrintedPeriod(outcome.text) # 0 =>
               /\ RequestsTo("get_metric_statistics") # {}
               /\ \A i \in RequestsTo("get_metric_statistics") :
                      requests[i].arg = PrintedPeriod(outcome.text)

\* query_service_metrics printed the statistics of a look-back of exactly 24
\* hours, requested with the 5-minute period
C12_Witness ==
    /\ tool = "query_service_metrics"
    /\ pc = "done"
    /\ svc.hours = 24
    /\ PrintedPeriod(outcome.text) = 300
    /\ RequestsTo("get_metric_statistics") # {}

\* ------------------------------------------------------------------- C2
\* C2: no call changes state that outlives it: the AWSConfig class keeps the
\* key_attributes property it was defined with, whatever calls have run.
C2_SharedStateUnchanged == AWSConfigClass = "original"

\* ------------------------------------------------------------------- C4
\* an SLO is violated when the first value of its BreachedCount result is > 0
Violated(values) == Len(values) > 0 /\ values[1] > 0

\* C4: for every service whose SLI report list_slis generated without error,
\* the status is BREACHED exactly when one of its SLOs is violated and OK
\* exactly when none is; CRITICAL is never a reported status.
C4_StatusMatchesBreaches ==
    tool = "list_slis" =>
        \A j \in 1..Len(sli.reports) :
            /\ sli.reports[j].SliStatus # "CRITICAL"
            /\ ~sli.inputs[j].error =>
                 LET values == sli.inputs[j].values
                     some == \E k \in 1..Len(values) : Violated(values[k])
                 IN /\ sli.reports[j].SliStatus = "BREACHED" <=> some
                    /\ sli.reports[j].SliStatus = "OK" <=> ~some

\* list_slis has returned a report with a breached service, one of whose
\* SLOs is met, and a healthy service with SLOs
C4_Witness ==
    /\ tool = "list_slis"
    /\ pc = "done"
    /\ \E j \in 1..Len(sli.reports) :
         /\ sli.reports[j].SliStatus = "BREACHED"
         /\ sli.reports[j].OkSloCount > 0
    /\ \E j \in 1..Len(sli.reports) :
         /\ sli.reports[j].SliStatus = "OK"
         /\ sli.reports[j].TotalSloCount > 0

\* ------------------------------------------------------------------- C5
\* C5: a service with an SLO whose BreachedCount result holds no values is
\* reported INSUFFICIENT_DATA by list_slis, not OK.
C5_NoValuesIsInsufficientData ==
    tool = "list_slis" =>
        \A j \in 1..Len(sli.reports) :
            (/\ ~sli.inputs[j].error
             /\ \E k \in 1..Len(sli.inputs[j].values) :
                    sli.inputs[j].values[k] = <<>>) =>
                sli.reports[j].SliStatus = "INSUFFICIENT_DATA"

\* ------------------------------------------------------------------- C6
\* the account ID the claim names for an entry of the response: the
\* AwsAccountId key attribute of a RequestBased SLO when it is 12 digits,
\* the account field the ARN was built from otherwise
ExpectedAccountId(slo) ==
    IF /\ slo.EvaluationType = "RequestBased"
       /\ slo.KeyAttributes.has
       /\ Len(slo.KeyAttributes.AwsAccountId) = AccountIdLen
       /\ Range(slo.KeyAttributes.AwsAccountId) \subseteq Digits
    THEN slo.KeyAttributes.AwsAccountId
    ELSE slo.account

\* C6: the AccountId of the metric query create_metric_queries builds for an
\* SLO is the 12-digit AwsAccountId key attribute when the SLO is
\* RequestBased and has one, and the account field of the SLO's ARN in every
\* other case (no such key attribute, or an SLO that is not RequestBased).
C6_AccountIdResolution ==
    (tool = "create_metric_queries" /\ pc = "done") =>
        /\ Len(mq.queries) = Len(mq.SloSummaries)
        /\ \A i \in 1..Len(mq.SloSummaries) :
               mq.queries[i].AccountId = ExpectedAccountId(mq.SloSummaries[i])

\* queries were built for a RequestBased SLO with a 12-digit AwsAccountId
\* and for a PeriodBased SLO carrying the same key attribute
C6_Witness ==
    /\ tool = "create_metric_queries"
    /\ pc = "done"
    /\ \E i, j \in 1..Len(mq.SloSummaries) :
         /\ mq.SloSummaries[i].EvaluationType = "RequestBased"
         /\ mq.SloSummaries[i].KeyAttributes.AwsAccountId = AccountA
         /\ mq.queries[i].AccountId = AccountA
         /\ mq.SloSummaries[j].EvaluationType = "PeriodBased"
         /\ mq.SloSummaries[j].KeyAttributes.AwsAccountId = AccountA
         /\ mq.queries[j].AccountId = AccountB
\* ------------------------------------------------------------------ C13
\* the names of the SLOs of a service whose BreachedCount results are
\* `values`, restricted to the violated ones
ViolatedSloNames(values) ==
    {SlosOfService(Len(values))[k].Name :
        k \in {i \in 1..Len(values) : Violated(values[i])}}

\* C13: for every service whose SLI report list_slis generated without
\* error, the breached SLO names of the report (the lines printed under
\* "Breached SLOs") are the names of exactly the violated SLOs of the service.
C13_BreachedNamesAreSloNames ==
    tool = "list_slis" =>
        \A j \in 1..Len(sli.reports) :
            ~sli.inputs[j].error =>
                /\ Range(sli.reports[j].BreachedSloNames) =
                       ViolatedSloNames(sli.inputs[j].values)
                /\ Len(sli.reports[j].BreachedSloNames) =
                       Cardinality(ViolatedSloNames(sli.inputs[j].values))

\* ------------------------------------------------------------------ C14
\* a listing text: the header with the count n, then every name of `names`
IsListing(text, header, n, names) ==
    /\ Len(text) >= 3
    /\ text[1] = header
    /\ text[2] = n
    /\ text[3] = " total):"
    /\ names \subseteq Range(Drop(text, 3))

DefaultMetricCount == 4

\* the number of metrics a get_service_metrics call asks for
RequestedMetrics(metric_name) ==
    IF metric_name = "None" THEN DefaultMetricCount ELSE 1

\* C15: a get_service_metrics call makes exactly one
\* batch_get_service_level_objective_budget_report request per requested
\* metric, 4 when no metric is named, and returns a text containing
\* "Metrics for service '<service_name>':".
C15_OneBudgetReportPerMetric ==
    (tool = "get_service_metrics" /\ pc = "done" /\ failure = NoError) =>
        /\ Cardinality(RequestsTo("batch_get_service_level_objective_budget_report"))
               = RequestedMetrics(svc.metric_name)
        /\ \E i \in 1..(Len(outcome.text) - 1) :
               /\ outcome.text[i] = "Metrics for service '"
               /\ outcome.text[i + 1] = svc.service_name

\* ------------------------------------------------------------------ C16
\* the tool names the test expects to be listed
ExpectedTools ==
    {"list_s3_buckets", "list_application_signals_services",
     "get_service_metrics"}

\* C16: the tools the server lists are exactly list_s3_buckets,
\* list_application_signals_services and get_service_metrics (three tools),
\* and a call of a name outside the listed set returns the text
\* "Unknown tool: <name>" instead of raising.
C16_ThreeToolsListed ==
    /\ (tool = "list_tools" /\ pc = "done") =>
           /\ Len(outcome.text) = Cardinality(ExpectedTools)
           /\ Range(outcome.text) = ExpectedTools
    /\ (tool = "call_tool" /\ pc = "done" /\ svc.name \notin ExpectedTools) =>
           outcome = Returned(<<"Unknown tool: ", svc.name>>)

\* ------------------------------------------------------------------ C17
\* the trace summaries of the pages of the given sizes, from page p on, in
\* the order the pages were served
RECURSIVE PagesFrom(_, _)
PagesFrom(sizes, p) ==
    IF p > Len(sizes) THEN <<>>
    ELSE Page(p, sizes[p]) \o PagesFrom(sizes, p + 1)

\* the last get_trace_summaries request of the helper raised
LastPageRequestRaised == Len(pag.sent_tokens) > Len(pag.got_tokens)

\* C17: get_trace_summaries_paginated sends no token in its first request
\* and in every later request the NextToken of the response before it; when
\* a request raises, the helper does not raise but returns the trace
\* summaries of the pages fetched before, in order.
C17_TokensChainedAndPartialResult ==
    pag.caller # "none" =>
        /\ \A p \in 1..Len(pag.sent_tokens) :
               pag.sent_tokens[p] =
                   IF p = 1 THEN NoToken ELSE pag.got_tokens[p - 1]
        /\ (pc # "pag_loop" /\ LastPageRequestRaised) =>
               /\ pag.result = PagesFrom(pag.sizes, 1)
               /\ (pag.caller = "direct" /\ pc = "done") =>
                      outcome.kind = "return"

\* a direct call has returned a summary after two pages and a third request
\* that raised
C17_Witness ==
    /\ pag.caller = "direct"
    /\ pc = "done"
    /\ Len(pag.sent_tokens) = 3
    /\ Len(pag.got_tokens) = 2
    /\ Len(pag.result) >= 1

\* ------------------------------------------------------------------- C1
Tools == {"list_monitored_services", "get_service_detail",
          "query_service_metrics", "get_slo", "search_transaction_spans",
          "list_slis", "query_sampled_traces"}

\* C1: a tool call during which an AWS request failed does not raise; it
\* returns "AWS Error: <Message>" when the first failure is a ClientError
\* and "Error: <text>" when it is any other exception.
C1_FailuresBecomeErrorStrings ==
    (tool \in Tools /\ pc = "done" /\ failure # NoError) =>
        /\ outcome.kind = "return"
        /\ outcome.text = IF failure.type = "ClientError"
                          THEN <<"AWS Error: ", failure.Message>>
                          ELSE <<"Error: ">> \o StrOf(failure)
====
